---- MODULE Spec2Model ----
(***************************************************************************)
(* Model of the coffre-Fort overlay for Mayan EDMS:                        *)
(*   - acl_sync.sync_acl_from_redis, run by the periodic Celery task and   *)
(*     by the on-demand endpoint POST /api/custom/acl-sync/;               *)
(*   - middleware.AutoOIDCLoginMiddleware and the cookie based OIDC views. *)
(*                                                                         *)
(* Strings the code slices or matches by prefix (role labels, paths, the   *)
(* decoded Basic credentials) are sequences of one-character strings, so   *)
(* that label[3:], startswith and split(':', 1) are computed, not assumed. *)
(***************************************************************************)
EXTENDS Integers, Sequences, FiniteSets, TLC

-----------------------------------------------------------------------------
(* Bounds of the model.                                                    *)

\* Documents are 1..NumDocs.
NumDocs == 2
\* Number of writes the backend makes to Redis in one behaviour.
MaxRedisChanges == 1

\* How many logins the browser starts, and how far the clock runs, in ticks
\* of TickSeconds seconds.
MaxLogins == 2
MaxTicks == 3
TickSeconds == 300

\* oidc_views.py: the state cookie's max_age, in seconds.
OIDC_STATE_MAX_AGE == 600

-----------------------------------------------------------------------------
(* Sequences of characters.                                                *)

StartsWith(s, p) == Len(s) >= Len(p) /\ SubSeq(s, 1, Len(p)) = p

\* s[:n]
Take(s, n) == SubSeq(s, 1, IF Len(s) < n THEN Len(s) ELSE n)

\* s[n:]  (n is the 0-based Python index)
Drop(s, n) == SubSeq(s, n + 1, Len(s))

Null == "None"

-----------------------------------------------------------------------------
(* The data of the ACL mirror.                                             *)

Docs == 1..NumDocs

\* Keycloak user ids; the mirror labels their role and group "kc:<userId>".
UserIds == {<<"a">>, <<"b">>}

\* Primary keys of the Mayan users that exist.
MayanUsers == {1, 2}

\* Raw values of the Redis key mayan:user:<userId>; "" stands for a missing
\* key (r.get gives None, and the code tests "not raw" for both).
IntOf == ("1" :> 1) @@ ("2" :> 2) @@ ("9" :> 9)

\* The value the backend writes for each user: its own Mayan user.
BackendMapOf(u) == IF u = <<"a">> THEN "1" ELSE "2"

\* The values the key of user u takes: missing, not a number, the user's
\* Mayan user, a Mayan user that was deleted.
MapValues(u) == {"", "x", BackendMapOf(u), "9"}

\* Stored permissions are (namespace, name) pairs; a key "ns.name" is split
\* at its first dot into the pair.
DocumentView == <<"documents", "document_view">>
DocumentFileView == <<"documents", "document_file_view">>
FileDownload == <<"document_downloads", "document_file_download">>
ContentView == <<"document_parsing", "content_view">>
PermissionKeys == {DocumentView, DocumentFileView, FileDownload, ContentView}

\* Content types of the host.
DocumentCT == [app_label |-> "documents", model |-> "document"]
CabinetCT == [app_label |-> "cabinets", model |-> "cabinet"]

KcPrefix == <<"k", "c", ":">>
AdminRole == <<"A", "d", "m">>

\* The sync runs: the Celery periodic task and the on-demand POST.
Runs == {"periodic", "ondemand"}

ZeroStats == [created |-> 0, updated |-> 0, deleted |-> 0, skipped |-> 0]

VARIABLES
    \* Redis, written by the Node.js backend
    redis_grants,      \* grant:<userId>:<documentId> -> payload, or Null
    redis_mayan_user,  \* mayan:user:<userId> -> raw value
    redis_changes,     \* number of backend writes so far
    \* the host's tables
    stored_permissions,\* StoredPermission rows, as (namespace, name)
    roles,             \* Role: label -> permissions the role holds globally
    groups,            \* Group names
    role_groups,       \* Role.groups: <<role label, group name>>
    user_groups,       \* User.groups: <<user pk, group name>>
    acls,              \* AccessControlList: [content_type, object_id, role] -> permissions
    \* one activation of sync_acl_from_redis per run
    pc,                \* "idle", "roles", "stale", "upsert", "done", "raised"
    grants_by_user,    \* user id -> set of Grant
    managed_roles,     \* roles of the stale loop still to visit
    todo_users,        \* users of the upsert loop still to visit
    cur_role,          \* role of the user being upserted, or Null
    todo_grants,       \* grants of that user still to upsert
    stats,             \* created/updated/deleted/skipped
    \* the on-demand endpoint
    api_request,       \* Authorization header of the POST being answered, or Null
    api_status,        \* status of the answer: 0 (none), 200, 401, 403
    \* history
    disturbed,         \* run -> since it began, the backend wrote to Redis or
                       \*        another run wrote to the tables
    \* one call of AutoOIDCLoginMiddleware
    mw_request,        \* the request handed to the middleware
    mw_response,       \* its answer, [kind |-> "none"] before the call
    \* one browser logging in
    session,           \* the session behind the browser's session cookie
    state_cookie,      \* the browser's oidc_state_cookie
    now,               \* the clock, in ticks
    issued,            \* how many authenticate requests were answered
    flows,             \* state -> the URL whose GET led to issuing it
    op_requests,       \* the authorization requests shown to the provider
    browser            \* what the browser holds

redis_vars == <<redis_grants, redis_mayan_user, redis_changes>>
db_vars == <<stored_permissions, roles, groups, role_groups, user_groups, acls>>
run_vars == <<pc, grants_by_user, managed_roles, todo_users, cur_role, todo_grants, stats>>
api_vars == <<api_request, api_status>>
hist_vars == <<disturbed>>
sync_vars == <<redis_vars, db_vars, run_vars, api_vars, hist_vars>>
mw_vars == <<mw_request, mw_response>>
web_vars == <<session, state_cookie, now, issued, flows, op_requests, browser>>
vars == <<sync_vars, mw_vars, web_vars>>


-----------------------------------------------------------------------------
(* acl_sync.py: the pure helpers.                                          *)

RECURSIVE LStrip(_)
LStrip(s) == IF s # <<>> /\ Head(s) = " " THEN LStrip(Tail(s)) ELSE s

RECURSIVE RStrip(_)
RStrip(s) == IF s # <<>> /\ s[Len(s)] = " " THEN RStrip(SubSeq(s, 1, Len(s) - 1)) ELSE s

\* str.strip() for blanks
Strip(s) == RStrip(LStrip(s))

\* tuple(str(p) for p in perms if p)
DropEmpty(perms) == SelectSeq(perms, LAMBDA p : p # "")

\* payload.get("permissions") or ["view"]; a bare string is one permission.
\* The payload's permissions are [kind |-> "none"], [kind |-> "str", value |-> s]
\* or [kind |-> "list", value |-> <<...>>].
ParsePermissions(p) ==
    LET perms == CASE p.kind = "none" -> <<"view">>
                   [] p.kind = "str"  -> IF p.value = "" THEN <<"view">> ELSE <<p.value>>
                   [] p.kind = "list" -> IF p.value = <<>> THEN <<"view">> ELSE p.value
    IN  DropEmpty(perms)

Grant(user_id, document_id, permissions) ==
    [user_id |-> user_id, document_id |-> document_id, permissions |-> permissions]

\* A payload is [raw |-> FALSE] (empty value) or
\* [raw |-> TRUE, userId |-> chars, docOk |-> int(documentId) succeeds,
\*  documentId |-> its value, permissions |-> ...].
GrantOfPayload(payload) ==
    Grant(Strip(payload.userId), payload.documentId, ParsePermissions(payload.permissions))

\* _iter_grants: the grants of the keys grant:* whose value parses and names
\* a user; the others are skipped.
iter_grants(r_grants) ==
    { GrantOfPayload(r_grants[key]) :
        key \in { k \in DOMAIN r_grants :
                    /\ r_grants[k].raw
                    /\ r_grants[k].docOk
                    /\ Strip(r_grants[k].userId) # <<>> } }

Contains(seq, x) == \E i \in 1..Len(seq) : seq[i] = x

\* Mutant: upload counts as download.
permission_keys_upload_downloads(grant) ==
    {DocumentView, DocumentFileView}
        \cup (IF Contains(grant.permissions, "download") \/ Contains(grant.permissions, "upload")
              THEN {FileDownload} ELSE {})
        \cup (IF Contains(grant.permissions, "ocr") THEN {ContentView} ELSE {})

permission_keys_for_grant(grant) ==
    {DocumentView, DocumentFileView}
        \cup (IF Contains(grant.permissions, "download") THEN {FileDownload} ELSE {})
        \cup (IF Contains(grant.permissions, "ocr") THEN {ContentView} ELSE {})

\* StoredPermission.objects.get(namespace, name) for each key; unknown keys
\* are skipped.
get_stored_permissions(permission_keys, stored) ==
    { k \in permission_keys : k \in stored }

\* f"kc:{user_id}"[:128]
MaxLabelLen == 128
RoleLabel(user_id) == Take(KcPrefix \o user_id, MaxLabelLen)

\* Mutant: each grant replaces the user's list instead of being appended.
GroupByUserOverwrite(grants) ==
    [u \in { g.user_id : g \in grants } |->
        { CHOOSE g \in grants : g.user_id = u /\ \A h \in grants : h.user_id = u => h.document_id >= g.document_id }]

\* setdefault(grant.user_id, []).append(grant) over the grants read
GroupByUser(grants) ==
    [u \in { g.user_id : g \in grants } |-> { g \in grants : g.user_id = u }]

\* Mutant: no role is taken as managed.
ManagedRolesNone(role_table) == {}

\* Mutant: every role is taken as managed.
ManagedRolesAll(role_table) == DOMAIN role_table

\* Role.objects.filter(label__startswith='kc:')
ManagedRoles(role_table) == { l \in DOMAIN role_table : StartsWith(l, KcPrefix) }

\* Mutant: a role whose user has no grant left is not cleaned.
StaleAclsOnlyWithGrants(role, gbu, acl_table) ==
    LET role_user_id == Drop(role, 3)
        desired_doc_ids == IF role_user_id \in DOMAIN gbu
                           THEN { g.document_id : g \in gbu[role_user_id] }
                           ELSE {}
        existing == { k \in DOMAIN acl_table :
                        k.content_type = DocumentCT /\ k.role = role }
    IN  { k \in existing : desired_doc_ids # {} /\ k.object_id \notin desired_doc_ids }

\* The ACLs the stale loop deletes for one managed role.
\* A stale step that deletes nothing.
StaleAclsNone(role, gbu, acl_table) == {}

StaleAcls(role, gbu, acl_table) ==
    LET role_user_id == Drop(role, 3)
        desired_doc_ids == IF role_user_id \in DOMAIN gbu
                           THEN { g.document_id : g \in gbu[role_user_id] }
                           ELSE {}
        existing == { k \in DOMAIN acl_table :
                        k.content_type = DocumentCT /\ k.role = role }
    IN  IF desired_doc_ids # {}
        THEN { k \in existing : k.object_id \notin desired_doc_ids }
        ELSE existing

AclKey(ct, object_id, role) == [content_type |-> ct, object_id |-> object_id, role |-> role]

\* A function with one key set (a row inserted or replaced).
Put(f, k, v) == [x \in DOMAIN f \cup {k} |-> IF x = k THEN v ELSE f[x]]

\* A function without some keys (rows deleted).
Without(f, ks) == [x \in DOMAIN f \ ks |-> f[x]]


-----------------------------------------------------------------------------
(* api_views.py: Basic authentication of the on-demand endpoint.           *)

\* Django accounts that can present a password, by username.
Accounts ==
    [ s |-> [password |-> <<"p", ":", "w">>, is_staff |-> TRUE,  is_superuser |-> FALSE, is_active |-> TRUE],
      r |-> [password |-> <<"w">>,           is_staff |-> FALSE, is_superuser |-> TRUE,  is_active |-> TRUE],
      u |-> [password |-> <<"w">>,           is_staff |-> FALSE, is_superuser |-> FALSE, is_active |-> TRUE],
      g |-> [password |-> <<"w">>,           is_staff |-> TRUE,  is_superuser |-> FALSE, is_active |-> FALSE] ]

NoUser == [username |-> "", is_staff |-> FALSE, is_superuser |-> FALSE]

\* base64.b64decode(encoded).decode('utf-8'): the texts the encoded tokens
\* stand for; a token outside the table does not decode.
B64 ==
    [ tokStaff    |-> <<"s", ":", "p", ":", "w">>,
      tokStaffBad |-> <<"s", ":", "w">>,
      tokRoot     |-> <<"r", ":", "w">>,
      tokUser     |-> <<"u", ":", "w">>,
      tokGone     |-> <<"g", ":", "w">>,
      tokNoColon  |-> <<"s", "p", "w">>,
      tokEmpty    |-> <<>> ]

BasicScheme == <<"B", "a", "s", "i", "c", " ">>

\* An Authorization header: the text up to and including its first blank,
\* and the token after it.
Header(text, token) == [text |-> text, token |-> token]

StaffHeader == Header(BasicScheme, "tokStaff")
NoHeader == Header(<<>>, "")

Headers ==
    { Header(<<>>, ""),
      Header(<<"B", "e", "a", "r", "e", "r", " ">>, "tokStaff"),
      Header(<<"b", "a", "s", "i", "c", " ">>, "tokStaff"),
      Header(BasicScheme, "!"),
      Header(BasicScheme, "tokEmpty"),
      Header(BasicScheme, "tokNoColon"),
      Header(BasicScheme, "tokStaffBad"),
      Header(BasicScheme, "tokGone"),
      Header(BasicScheme, "tokUser"),
      Header(BasicScheme, "tokRoot"),
      Header(BasicScheme, "tokStaff") }

\* Index of the first c in s, 0 when there is none.
IndexOf(s, c) ==
    IF \E i \in 1..Len(s) : s[i] = c
    THEN CHOOSE i \in 1..Len(s) : s[i] = c /\ \A j \in 1..(i - 1) : s[j] # c
    ELSE 0

\* django.contrib.auth.authenticate(username, password): the active account
\* with that password, or none.
authenticate(username, password) ==
    IF /\ Len(username) = 1
       /\ username[1] \in DOMAIN Accounts
       /\ Accounts[username[1]].password = password
       /\ Accounts[username[1]].is_active
    THEN [username |-> username[1],
          is_staff |-> Accounts[username[1]].is_staff,
          is_superuser |-> Accounts[username[1]].is_superuser]
    ELSE NoUser

basic_auth_user(auth_header) ==
    IF ~StartsWith(auth_header.text, BasicScheme) THEN NoUser
    ELSE IF auth_header.token \notin DOMAIN B64 THEN NoUser
    ELSE LET decoded == B64[auth_header.token]
             i == IndexOf(decoded, ":")
         IN  IF i = 0 THEN NoUser
             ELSE authenticate(SubSeq(decoded, 1, i - 1), SubSeq(decoded, i + 1, Len(decoded)))

\* Mutant: any authenticated account passes.
MayRunSyncAnyUser(user) == TRUE

\* Staff/superusers only.
MayRunSync(user) == user.is_staff \/ user.is_superuser

\* The status ACLSyncNowView.post answers before it runs the sync: 401, 403,
\* or 0 when the sync is to run.
PostGate(auth_header) ==
    LET user == basic_auth_user(auth_header)
    IN  IF user = NoUser THEN 401
        ELSE IF ~MayRunSync(user) THEN 403
        ELSE 0


-----------------------------------------------------------------------------
(* Redis as the backend writes it.                                         *)

ListOf(seq) == [kind |-> "list", value |-> seq]

Payload(u, d, permissions) ==
    [raw |-> TRUE, userId |-> u, docOk |-> TRUE, documentId |-> d,
     permissions |-> permissions]

\* The permission lists the backend writes in this model.
PermissionLists ==
    { ListOf(<<"view">>), ListOf(<<"view", "download">>) }

\* The grants the backend gives in this model: user a any document, user b
\* document 1.
GrantKeys == { k \in UserIds \X Docs : k[1] = <<"a">> \/ k[2] = 1 }

Active(r) == pc[r] # "idle"

\* A backend write disturbs every run that is active.
MarkDirty == disturbed' = [r \in Runs |-> disturbed[r] \/ Active(r)]

RedisWrite ==
    /\ redis_changes < MaxRedisChanges
    /\ redis_changes' = redis_changes + 1
    /\ MarkDirty
    /\ UNCHANGED <<db_vars, run_vars, api_vars>>

\* The backend grants or changes a grant: SET grant:<u>:<d>.
RedisSetGrant(u, d, permissions) ==
    /\ ~(<<u, d>> \in DOMAIN redis_grants /\ redis_grants[<<u, d>>] = Payload(u, d, permissions))
    /\ redis_grants' = Put(redis_grants, <<u, d>>, Payload(u, d, permissions))
    /\ UNCHANGED redis_mayan_user
    /\ RedisWrite

\* A grant is revoked or expires: the key goes away.
RedisDelGrant(key) ==
    /\ key \in DOMAIN redis_grants
    /\ redis_grants' = Without(redis_grants, {key})
    /\ UNCHANGED redis_mayan_user
    /\ RedisWrite

\* The backend writes (or drops, with "") mayan:user:<u>.
RedisSetMayanUser(u, raw) ==
    /\ redis_mayan_user[u] # raw
    /\ redis_mayan_user' = [redis_mayan_user EXCEPT ![u] = raw]
    /\ UNCHANGED redis_grants
    /\ RedisWrite

-----------------------------------------------------------------------------
(* acl_sync.py: sync_acl_from_redis, one step per query or loop iteration. *)

\* A write of run r to the tables disturbs every other active run.
MarkOverlap(r) ==
    disturbed' = [x \in Runs |-> disturbed[x] \/ (x # r /\ Active(x))]

\* The endpoint answers when its run ends: 200 with the stats, 500 when it
\* raised.
ApiStatusAt(r, new_pc) ==
    IF r = "ondemand" /\ new_pc = "done" THEN 200
    ELSE IF r = "ondemand" /\ new_pc = "raised" THEN 500
    ELSE api_status

\* Lines 111-126: read every grant, group them by user.
BeginSync(r) ==
    LET gbu == GroupByUser(iter_grants(redis_grants))
    IN  /\ grants_by_user' = [grants_by_user EXCEPT ![r] = gbu]
        /\ todo_users' = [todo_users EXCEPT ![r] = DOMAIN gbu]
        /\ pc' = [pc EXCEPT ![r] = "roles"]
        /\ stats' = [stats EXCEPT ![r] = ZeroStats]
        /\ disturbed' = [disturbed EXCEPT ![r] = FALSE]
        /\ UNCHANGED <<redis_vars, db_vars, managed_roles, cur_role, todo_grants>>

PcAfterStale(r) == IF todo_users[r] = {} THEN "done" ELSE "upsert"

\* Lines 130-131: the managed roles are queried when the stale loop starts.
QueryManagedRoles(r) ==
    /\ pc[r] = "roles"
    /\ LET found == ManagedRoles(roles)
           new_pc == IF found = {} THEN PcAfterStale(r) ELSE "stale"
       IN  /\ managed_roles' = [managed_roles EXCEPT ![r] = found]
           /\ pc' = [pc EXCEPT ![r] = new_pc]
           /\ api_status' = ApiStatusAt(r, new_pc)
    /\ UNCHANGED <<redis_vars, db_vars, grants_by_user, todo_users, cur_role,
                   todo_grants, stats, api_request, hist_vars>>

\* Lines 131-143: one managed role; its stale Document ACLs are deleted.
RemoveStale(r) ==
    /\ pc[r] = "stale"
    /\ \E role \in managed_roles[r] :
        LET stale == StaleAcls(role, grants_by_user[r], acls)
            rest == managed_roles[r] \ {role}
            new_pc == IF rest = {} THEN PcAfterStale(r) ELSE "stale"
        IN  /\ acls' = Without(acls, stale)
            /\ stats' = [stats EXCEPT ![r].deleted = @ + Cardinality(stale)]
            /\ managed_roles' = [managed_roles EXCEPT ![r] = rest]
            /\ pc' = [pc EXCEPT ![r] = new_pc]
            /\ api_status' = ApiStatusAt(r, new_pc)
    /\ MarkOverlap(r)
    /\ UNCHANGED <<redis_vars, stored_permissions, roles, groups, role_groups,
                   user_groups, grants_by_user, todo_users, cur_role, todo_grants,
                   api_request>>

\* Lines 146-158: the next user of the upsert loop. Without a usable
\* mayan:user mapping the user's grants are skipped; otherwise
\* _ensure_user_group_role (lines 84-97) makes the group and the role, and
\* User.objects.get raises when the mapped user does not exist.
UpsertUser(r) ==
    /\ pc[r] = "upsert"
    /\ todo_grants[r] = {}
    /\ \E user_id \in todo_users[r] :
        LET raw == redis_mayan_user[user_id]
            user_grants == grants_by_user[r][user_id]
            rest == todo_users[r] \ {user_id}
            label == RoleLabel(user_id)
        IN  IF raw = "" \/ raw \notin DOMAIN IntOf
            THEN /\ stats' = [stats EXCEPT ![r].skipped = @ + Cardinality(user_grants)]
                 /\ todo_users' = [todo_users EXCEPT ![r] = rest]
                 /\ pc' = [pc EXCEPT ![r] = IF rest = {} THEN "done" ELSE "upsert"]
                 /\ api_status' = ApiStatusAt(r, IF rest = {} THEN "done" ELSE "upsert")
                 /\ UNCHANGED <<db_vars, cur_role, todo_grants, disturbed>>
            ELSE /\ groups' = groups \cup {label}
                 /\ roles' = IF label \in DOMAIN roles THEN roles ELSE Put(roles, label, {})
                 /\ role_groups' = role_groups \cup {<<label, label>>}
                 /\ MarkOverlap(r)
                 /\ UNCHANGED <<stored_permissions, acls, stats>>
                 /\ IF IntOf[raw] \in MayanUsers
                    THEN /\ user_groups' = user_groups \cup {<<IntOf[raw], label>>}
                         /\ cur_role' = [cur_role EXCEPT ![r] = label]
                         /\ todo_grants' = [todo_grants EXCEPT ![r] = user_grants]
                         /\ todo_users' = [todo_users EXCEPT ![r] = rest]
                         /\ UNCHANGED <<pc, api_status>>
                    ELSE /\ pc' = [pc EXCEPT ![r] = "raised"]
                         /\ api_status' = ApiStatusAt(r, "raised")
                         /\ UNCHANGED <<user_groups, cur_role, todo_grants, todo_users>>
    /\ UNCHANGED <<redis_vars, grants_by_user, managed_roles, api_request>>

\* Lines 160-178: one grant of the current user: get_or_create of the ACL,
\* permissions.set, and the same permissions added to the role.
UpsertGrant(r) ==
    /\ pc[r] = "upsert"
    /\ \E grant \in todo_grants[r] :
        LET stored_perms == get_stored_permissions(permission_keys_for_grant(grant),
                                                   stored_permissions)
            role == cur_role[r]
            key == AclKey(DocumentCT, grant.document_id, role)
            was_created == key \notin DOMAIN acls
            rest == todo_grants[r] \ {grant}
            new_pc == IF rest = {} /\ todo_users[r] = {} THEN "done" ELSE "upsert"
        IN  /\ acls' = Put(acls, key, stored_perms)
            /\ stats' = IF was_created
                        THEN [stats EXCEPT ![r].created = @ + 1]
                        ELSE [stats EXCEPT ![r].updated = @ + 1]
            /\ roles' = IF stored_perms # {}
                        THEN Put(roles, role,
                                 (IF role \in DOMAIN roles THEN roles[role] ELSE {})
                                     \cup stored_perms)
                        ELSE roles
            /\ todo_grants' = [todo_grants EXCEPT ![r] = rest]
            /\ pc' = [pc EXCEPT ![r] = new_pc]
            /\ api_status' = ApiStatusAt(r, new_pc)
    /\ MarkOverlap(r)
    /\ UNCHANGED <<redis_vars, stored_permissions, groups, role_groups, user_groups,
                   grants_by_user, managed_roles, todo_users, cur_role, api_request>>

\* The locals of a run that ended.
EndRun(r) ==
    /\ pc' = [pc EXCEPT ![r] = "idle"]
    /\ grants_by_user' = [grants_by_user EXCEPT ![r] = <<>>]
    /\ managed_roles' = [managed_roles EXCEPT ![r] = {}]
    /\ todo_users' = [todo_users EXCEPT ![r] = {}]
    /\ cur_role' = [cur_role EXCEPT ![r] = <<>>]
    /\ todo_grants' = [todo_grants EXCEPT ![r] = {}]
    /\ stats' = [stats EXCEPT ![r] = ZeroStats]
    /\ disturbed' = [disturbed EXCEPT ![r] = FALSE]

-----------------------------------------------------------------------------
(* tasks.py, queues.py: the periodic task.                                 *)

\* The beat schedules sync_acl_from_redis_task every 30 seconds; the task
\* calls sync_acl_from_redis.
SyncTaskStart ==
    /\ pc["periodic"] = "idle"
    /\ BeginSync("periodic")
    /\ UNCHANGED api_vars

\* The task prints the stats and ends, or fails with the exception.
SyncTaskEnd ==
    /\ pc["periodic"] \in {"done", "raised"}
    /\ EndRun("periodic")
    /\ UNCHANGED <<redis_vars, db_vars, api_vars>>

-----------------------------------------------------------------------------
(* api_views.py: ACLSyncNowView.post.                                      *)

\* A POST arrives: 401 or 403 at once, or the sync starts.
ACLSyncNowPost(auth_header) ==
    /\ pc["ondemand"] = "idle"
    /\ api_status = 0
    /\ api_request' = auth_header
    /\ IF PostGate(auth_header) # 0
       THEN /\ api_status' = PostGate(auth_header)
            /\ UNCHANGED <<redis_vars, db_vars, run_vars, hist_vars>>
       ELSE /\ BeginSync("ondemand")
            /\ UNCHANGED api_status

\* The answer is sent; the endpoint is ready for the next request.
ACLSyncNowRespond ==
    /\ api_status # 0
    /\ api_status' = 0
    /\ api_request' = NoHeader
    /\ IF pc["ondemand"] \in {"done", "raised"}
       THEN EndRun("ondemand")
       ELSE UNCHANGED <<run_vars, hist_vars>>
    /\ UNCHANGED <<redis_vars, db_vars>>

-----------------------------------------------------------------------------
(* middleware.py: AutoOIDCLoginMiddleware.                                 *)

\* A request: its method, path and query string, what request.session is
\* ("none": no session attribute, "raises": reading it fails, "empty": no
\* _auth_user_id, "auth": _auth_user_id set) and what request.user is
\* ("none": no attribute, "anonymous", "authenticated").
Request(method, path, query, sess, user) ==
    [method |-> method, path |-> path, query |-> query, session |-> sess, user |-> user]

NoRequest == Request("", <<>>, <<>>, "none", "none")
NoResponse == [kind |-> "none"]

\* The request is handed to get_response.
PassOn == [kind |-> "next"]
Redirect(location) == [kind |-> "redirect", location |-> location]

P_ROOT == <<"/">>
P_API == <<"/", "a", "p", "i", "/">>
P_OIDC == <<"/", "o", "i", "d", "c", "/">>
P_STATIC == <<"/", "s", "t", "a", "t", "i", "c", "/">>
P_MEDIA == <<"/", "m", "e", "d", "i", "a", "/">>
P_FAVICON == <<"/", "f", "a", "v", "i", "c", "o", "n", ".", "i", "c", "o">>
P_ROBOTS == <<"/", "r", "o", "b", "o", "t", "s", ".", "t", "x", "t">>
P_HEALTH == <<"/", "h", "e", "a", "l", "t", "h", "/">>
P_AUTHENTICATION == <<"/", "a", "u", "t", "h", "e", "n", "t", "i", "c", "a", "t", "i", "o", "n", "/">>
P_OIDC_AUTHENTICATE == <<"/", "o", "i", "d", "c", "/", "a", "u", "t", "h", "e", "n", "t", "i", "c", "a", "t", "e", "/">>
P_OIDC_CALLBACK == <<"/", "o", "i", "d", "c", "/", "c", "a", "l", "l", "b", "a", "c", "k", "/">>
P_LOGIN_FAILURE == <<"/", "a", "u", "t", "h", "e", "n", "t", "i", "c", "a", "t", "i", "o", "n", "/", "l", "o", "g", "i", "n", "/">>
P_ACL_SYNC == <<"/", "a", "p", "i", "/", "c", "u", "s", "t", "o", "m", "/", "a", "c", "l", "-", "s", "y", "n", "c", "/">>
P_DOC == <<"/", "d", "o", "c", "/">>

allowed_prefixes == <<P_API, P_OIDC, P_STATIC, P_MEDIA, P_FAVICON>>
allowed_exact == <<P_ROBOTS>>

\* urllib.parse.quote with safe='/': letters, digits and _ . - ~ / stay, any
\* other character becomes its %XX escape.
Escapes ==
    [c \in {"?", "=", "&", "%", " "} |->
        CASE c = "?" -> <<"%", "3", "F">>
          [] c = "=" -> <<"%", "3", "D">>
          [] c = "&" -> <<"%", "2", "6">>
          [] c = "%" -> <<"%", "2", "5">>
          [] c = " " -> <<"%", "2", "0">>]

RECURSIVE quote(_)
quote(s) ==
    IF s = <<>> THEN <<>>
    ELSE (IF Head(s) \in DOMAIN Escapes THEN Escapes[Head(s)] ELSE <<Head(s)>>)
            \o quote(Tail(s))

\* request.get_full_path(): the path, and "?query" when there is a query.
get_full_path(request) ==
    IF request.query = <<>> THEN request.path ELSE request.path \o <<"?">> \o request.query

OrRoot(s) == IF s = <<>> THEN P_ROOT ELSE s

\* Mutant: the session is not looked at.
SessionAuthenticatedNever(request) == FALSE

\* session and session.get('_auth_user_id'), inside try/except
SessionAuthenticated(request) == request.session = "auth"

\* user is not None and user.is_authenticated
UserAuthenticated(request) == request.user = "authenticated"

\* Mutant: /api/ is not among the allowed prefixes.
HasAllowedPrefixNoApi(path) ==
    \E i \in 2..Len(allowed_prefixes) : StartsWith(path, allowed_prefixes[i])

\* any(path.startswith(prefix) for prefix in self.allowed_prefixes)
HasAllowedPrefix(path) ==
    \E i \in 1..Len(allowed_prefixes) : StartsWith(path, allowed_prefixes[i])

LoginRedirect(request) ==
    Redirect(P_OIDC_AUTHENTICATE \o <<"?", "n", "e", "x", "t", "=">>
                \o quote(OrRoot(get_full_path(request))))

\* AutoOIDCLoginMiddleware.__call__
AutoOIDCLoginMiddleware(request) ==
    LET path == OrRoot(request.path)
    IN  IF SessionAuthenticated(request) THEN PassOn
        ELSE IF UserAuthenticated(request) THEN PassOn
        ELSE IF request.method # "GET" THEN PassOn
        ELSE IF \E i \in 1..Len(allowed_exact) : path = allowed_exact[i] THEN PassOn
        ELSE IF HasAllowedPrefix(path) THEN PassOn
        ELSE IF StartsWith(path, P_AUTHENTICATION) THEN PassOn
        ELSE LoginRedirect(request)

\* The requests the middleware is called with.
Methods == {"GET", "HEAD", "POST", "DELETE"}

Paths ==
    { <<>>, P_ROOT, P_DOC,
      P_API, P_ACL_SYNC, <<"/", "a", "p", "i", "x">>,
      P_OIDC_AUTHENTICATE, P_OIDC_CALLBACK,
      P_STATIC \o <<"a">>, P_MEDIA \o <<"a">>,
      P_FAVICON, P_ROBOTS, P_ROBOTS \o <<"x">>,
      P_HEALTH, P_LOGIN_FAILURE }

Queries == { <<>>, <<"p", "=", "1">> }

Requests ==
    { Request(m, p, q, s, u) :
        m \in Methods, p \in Paths, q \in Queries,
        s \in {"none", "raises", "empty", "auth"},
        u \in {"none", "anonymous", "authenticated"} }

\* The middleware is called with the request and answers.
MiddlewareCall ==
    /\ mw_response = NoResponse
    /\ mw_response' = AutoOIDCLoginMiddleware(mw_request)
    /\ UNCHANGED <<mw_request, sync_vars, web_vars>>

-----------------------------------------------------------------------------
(* oidc_views.py: the login round trip of one browser.                     *)

\* s[i:j] pieces of a URL: the path before the first "?" and the query
\* after it.
UrlPath(url) == IF IndexOf(url, "?") = 0 THEN url ELSE Take(url, IndexOf(url, "?") - 1)
UrlQuery(url) == IF IndexOf(url, "?") = 0 THEN <<>> ELSE Drop(url, IndexOf(url, "?"))

\* urllib.parse.unquote: every %XX escape becomes its character again.
RECURSIVE unquote(_)
unquote(s) ==
    IF s = <<>> THEN <<>>
    ELSE IF Head(s) = "%" /\ \E c \in DOMAIN Escapes : Escapes[c] = Take(s, 3)
         THEN <<CHOOSE c \in DOMAIN Escapes : Escapes[c] = Take(s, 3)>> \o unquote(Drop(s, 3))
         ELSE <<Head(s)>> \o unquote(Tail(s))

NextParam == <<"n", "e", "x", "t", "=">>

\* request.GET.get("next"): the decoded value of the query's next parameter,
\* <<>> when there is none.
QueryNext(query) ==
    IF StartsWith(query, NextParam)
    THEN LET value == Drop(query, Len(NextParam))
         IN  unquote(IF IndexOf(value, "&") = 0 THEN value
                     ELSE Take(value, IndexOf(value, "&") - 1))
    ELSE <<>>

\* get_next_url(request, "next"): the next parameter when it is a safe
\* redirect target (a local path, not a //host reference), else None (<<>>).
get_next_url(query) ==
    LET next_url == QueryNext(query)
    IN  IF StartsWith(next_url, P_ROOT) /\ ~StartsWith(next_url, <<"/", "/">>)
        THEN next_url ELSE <<>>

LOGIN_REDIRECT_URL == P_ROOT
LOGIN_REDIRECT_URL_FAILURE == P_LOGIN_FAILURE

\* get_random_string: the k-th authenticate request draws a state and a
\* nonce that no earlier request drew.
StateOf(k) == k
NonceOf(k) == MaxLogins + 1 + k

\* The session behind the browser's session cookie.
EmptySession == [auth |-> FALSE, oidc_states |-> {}, oidc_login_next |-> <<>>]

\* The value of the oidc_state_cookie: the signed state_data; state 0 stands
\* for no cookie, intact is FALSE once the value no longer carries the
\* server's signature.
NoCookie == [state |-> 0, nonce |-> 0, next |-> <<>>, created |-> 0, intact |-> FALSE]

\* Mutant: the cookie does not remember where the login was started from.
StateDataForgetsNext(state, nonce, next, created) ==
    [state |-> state, nonce |-> nonce, next |-> P_ROOT, created |-> created, intact |-> TRUE]

\* state_data, signed with signing.dumps
StateData(state, nonce, next, created) ==
    [state |-> state, nonce |-> nonce, next |-> next, created |-> created, intact |-> TRUE]

\* Mutant: the cookie's age is not looked at.
SigningLoadsNoMaxAge(cookie, t) == cookie.intact

\* signing.loads(..., max_age=OIDC_STATE_MAX_AGE) succeeds: the signature is
\* the server's and the value is not older than max_age.
SigningLoads(cookie, t) ==
    cookie.intact /\ (t - cookie.created) * TickSeconds <= OIDC_STATE_MAX_AGE

\* What the provider hands back as ?code=: the nonce of the authorization
\* request it answers, and what the token exchange will come to.
NoCode == [nonce |-> 0, outcome |-> "missing"]
Outcomes == {"active", "inactive", "rejected", "raises"}

\* auth.authenticate(request, nonce=nonce): the token exchange raises, or the
\* provider rejects the code, or the ID token's nonce differs from the one
\* handed in (verification raises), or the user comes back.
authenticate_code(code, nonce) ==
    IF code.outcome = "raises" THEN "raises"
    ELSE IF code.outcome = "rejected" THEN "none"
    ELSE IF code.nonce # nonce THEN "raises"
    ELSE code.outcome

\* self.success_url: the session's oidc_login_next, or LOGIN_REDIRECT_URL.
success_url(sess) ==
    IF sess.oidc_login_next = <<>> THEN LOGIN_REDIRECT_URL ELSE sess.oidc_login_next

\* What the browser holds: a page it was served, a redirect to follow on this
\* host, a redirect to the provider's authorization endpoint, or the
\* provider's login form.  origin is the URL whose GET started the chain of
\* redirects, via the handler that answered last.
Browser(kind, url, origin, state, nonce, via) ==
    [kind |-> kind, url |-> url, origin |-> origin, state |-> state, nonce |-> nonce, via |-> via]

Blank == Browser("blank", <<>>, <<>>, 0, 0, "")

\* The request the middleware sees: it runs after SessionMiddleware and
\* before request.user is set.
WebRequest(url) ==
    Request("GET", UrlPath(url), UrlQuery(url), IF session.auth THEN "auth" ELSE "empty", "none")

\* CookieBasedOIDCAuthenticationRequestView.get
OIDCAuthenticationRequestGet(url, origin) ==
    LET state == StateOf(issued + 1)
        nonce == NonceOf(issued + 1)
        next == OrRoot(get_next_url(UrlQuery(url)))
    IN  /\ issued < MaxLogins
        /\ issued' = issued + 1
        /\ state_cookie' = StateData(state, nonce, next, now)
        /\ session' = [session EXCEPT
                          !.oidc_states = @ \cup {[state |-> state, nonce |-> nonce]},
                          !.oidc_login_next = next]
        /\ flows' = Put(flows, state, origin)
        /\ browser' = Browser("provider", <<>>, origin, state, nonce, "authenticate")
        /\ UNCHANGED <<now, op_requests>>

\* A page of the host is served.
ServePage(url, origin, via) ==
    /\ browser' = Browser("page", url, origin, 0, 0, via)
    /\ UNCHANGED <<session, state_cookie, now, issued, flows, op_requests>>

\* A GET of url on this host: the middleware, then the view.
Get(url, origin, via) ==
    LET response == AutoOIDCLoginMiddleware(WebRequest(url))
    IN  IF response.kind = "redirect"
        THEN /\ browser' = Browser("redirect", response.location, OrRoot(url), 0, 0, "middleware")
             /\ UNCHANGED <<session, state_cookie, now, issued, flows, op_requests>>
        ELSE IF UrlPath(url) = P_OIDC_AUTHENTICATE
        THEN OIDCAuthenticationRequestGet(url, origin)
        ELSE ServePage(url, origin, via)

\* The URLs the user opens: protected pages and the authenticate view.
Targets == { P_ROOT, P_DOC, P_DOC \o <<"?", "p", "=", "1">> }

\* The user opens a URL.
BrowserGet(url) ==
    /\ Get(url, <<>>, "user")
    /\ UNCHANGED <<sync_vars, mw_vars>>

\* The browser follows a redirect to this host.
FollowRedirect ==
    /\ browser.kind = "redirect"
    /\ Get(browser.url, browser.origin, browser.via)
    /\ UNCHANGED <<sync_vars, mw_vars>>

\* The browser follows the redirect to the provider, which shows its login
\* form for that authorization request.
FollowToProvider ==
    /\ browser.kind = "provider"
    /\ op_requests' = op_requests \cup {[state |-> browser.state, nonce |-> browser.nonce]}
    /\ browser' = Browser("form", <<>>, browser.origin, browser.state, browser.nonce, "provider")
    /\ UNCHANGED <<session, state_cookie, now, issued, flows, sync_vars, mw_vars>>

\* self.login_failure()
login_failure == Browser("redirect", LOGIN_REDIRECT_URL_FAILURE, <<>>, 0, 0, "login_failure")

\* Mutant: the exception of authenticate() is raised again, Django answers
\* with an error 500.
authenticate_reraised == Browser("error", <<>>, <<>>, 0, 0, "error_500")

\* except Exception around auth.authenticate (lines 188-195 and 232-246):
\* the exception is logged and the view answers self.login_failure().
authenticate_raised == login_failure

\* The answer when authenticate() did not give an active user.
NotLoggedIn(result) == IF result = "raises" THEN authenticate_raised ELSE login_failure

\* self.login_success(): auth.login keeps the session's data.
login_success(sess, origin) == Browser("redirect", success_url(sess), origin, 0, 0, "login_success")

\* The authorization requests a code redeemed by authenticate() belongs to.
Redeemed(code) == { r \in op_requests : r.nonce = code.nonce }

\* CookieBasedOIDCAuthenticationCallbackView.get: a GET of
\* /oidc/callback/?state=url_state&code=code (&error=... when error), state 0
\* and NoCode standing for a missing parameter.
OIDCAuthenticationCallbackGet(url_state, code, error) ==
    LET origin == IF url_state \in DOMAIN flows THEN flows[url_state] ELSE <<>>
        stored == { e \in session.oidc_states : e.state = url_state }
    IN
    /\ AutoOIDCLoginMiddleware(WebRequest(P_OIDC_CALLBACK)) = PassOn
    /\ IF error
       THEN /\ session' = IF session.auth THEN EmptySession ELSE session
            /\ browser' = login_failure
            /\ UNCHANGED <<state_cookie, op_requests>>
       ELSE IF url_state = 0 \/ code = NoCode
       THEN /\ browser' = login_failure
            /\ UNCHANGED <<session, state_cookie, op_requests>>
       ELSE IF state_cookie = NoCookie
       THEN IF stored # {}
            THEN LET nonce == (CHOOSE e \in stored : TRUE).nonce
                     sess == [session EXCEPT !.oidc_states = @ \ stored]
                 IN  /\ op_requests' = op_requests \ Redeemed(code)
                     /\ UNCHANGED state_cookie
                     /\ IF authenticate_code(code, nonce) = "active"
                        THEN /\ session' = [sess EXCEPT !.auth = TRUE]
                             /\ browser' = login_success(sess, origin)
                        ELSE /\ session' = sess
                             /\ browser' = NotLoggedIn(authenticate_code(code, nonce))
            ELSE /\ browser' = login_failure
                 /\ UNCHANGED <<session, state_cookie, op_requests>>
       ELSE IF ~SigningLoads(state_cookie, now)
       THEN /\ browser' = login_failure
            /\ UNCHANGED <<session, state_cookie, op_requests>>
       ELSE IF state_cookie.state # url_state
       THEN /\ browser' = login_failure
            /\ UNCHANGED <<session, state_cookie, op_requests>>
       ELSE LET sess == [session EXCEPT !.oidc_login_next = state_cookie.next]
            IN  /\ op_requests' = op_requests \ Redeemed(code)
                /\ state_cookie' = NoCookie
                /\ IF authenticate_code(code, state_cookie.nonce) = "active"
                   THEN /\ session' = [sess EXCEPT !.auth = TRUE]
                        /\ browser' = login_success(sess, origin)
                   ELSE /\ session' = sess
                        /\ browser' = NotLoggedIn(authenticate_code(code, state_cookie.nonce))
    /\ UNCHANGED <<now, issued, flows, sync_vars, mw_vars>>

\* The codes the provider can have handed out: one per authorization request
\* it was shown.
Codes == { [nonce |-> r.nonce, outcome |-> o] : r \in op_requests, o \in Outcomes }

\* The browser no longer sends its session cookie: the host sees a new,
\* empty session.
LoseSessionCookie ==
    /\ session # EmptySession
    /\ session' = EmptySession
    /\ UNCHANGED <<state_cookie, now, issued, flows, op_requests, browser, sync_vars, mw_vars>>

\* The browser no longer sends the state cookie (dropped, or past max_age).
LoseStateCookie ==
    /\ state_cookie # NoCookie
    /\ state_cookie' = NoCookie
    /\ UNCHANGED <<session, now, issued, flows, op_requests, browser, sync_vars, mw_vars>>

\* The state cookie's value is altered on the way: it no longer verifies.
TamperStateCookie ==
    /\ state_cookie # NoCookie
    /\ state_cookie.intact
    /\ state_cookie' = [state_cookie EXCEPT !.intact = FALSE]
    /\ UNCHANGED <<session, now, issued, flows, op_requests, browser, sync_vars, mw_vars>>

\* Time passes.
Tick ==
    /\ now < MaxTicks
    /\ now' = now + 1
    /\ UNCHANGED <<session, state_cookie, issued, flows, op_requests, browser, sync_vars, mw_vars>>

\* No browser has come yet.
WebIdle ==
    /\ session = EmptySession
    /\ state_cookie = NoCookie
    /\ now = 0
    /\ issued = 0
    /\ flows = <<>>
    /\ op_requests = {}
    /\ browser = Blank

\* No request is at the middleware.
MwIdle ==
    /\ mw_request = NoRequest
    /\ mw_response = NoResponse

-----------------------------------------------------------------------------
(* The initial states: a host with tables left by earlier activity, and a  *)
(* Redis the backend has already written.                                  *)

ViewFiles == {DocumentView, DocumentFileView}

\* The host at the start: an administrator's role with an ACL of its own;
\* user a was synced before (role, group, a Document ACL left from a grant
\* that is gone or not, and a cabinet ACL an administrator gave the role);
\* user b was never synced.
InitTables ==
    [roles |-> (AdminRole :> {DocumentView}) @@ (RoleLabel(<<"a">>) :> ViewFiles),
     groups |-> {RoleLabel(<<"a">>)},
     role_groups |-> {<<RoleLabel(<<"a">>), RoleLabel(<<"a">>)>>},
     user_groups |-> {<<1, RoleLabel(<<"a">>)>>},
     acls |-> (AclKey(DocumentCT, 1, AdminRole) :> {DocumentView})
                @@ (AclKey(CabinetCT, 1, RoleLabel(<<"a">>)) :> {DocumentView})
                @@ (AclKey(DocumentCT, NumDocs, RoleLabel(<<"a">>)) :> ViewFiles)]

\* Redis at the start: any set of view grants, each user mapped or not.
InitGrants ==
    { [key \in keys |-> Payload(key[1], key[2], ListOf(<<"view">>))] : keys \in SUBSET GrantKeys }

InitMayanUser == { m \in [UserIds -> {"", "1", "2"}] : \A u \in UserIds : m[u] \in {"", BackendMapOf(u)} }

Init ==
    /\ redis_grants \in InitGrants
    /\ redis_mayan_user \in InitMayanUser
    /\ redis_changes = 0
    /\ stored_permissions = PermissionKeys
    /\ roles = InitTables.roles
    /\ groups = InitTables.groups
    /\ role_groups = InitTables.role_groups
    /\ user_groups = InitTables.user_groups
    /\ acls = InitTables.acls
    /\ pc = [r \in Runs |-> "idle"]
    /\ grants_by_user = [r \in Runs |-> <<>>]
    /\ managed_roles = [r \in Runs |-> {}]
    /\ todo_users = [r \in Runs |-> {}]
    /\ cur_role = [r \in Runs |-> <<>>]
    /\ todo_grants = [r \in Runs |-> {}]
    /\ api_request = NoHeader
    /\ api_status = 0
    /\ stats = [r \in Runs |-> ZeroStats]
    /\ disturbed = [r \in Runs |-> FALSE]
    /\ MwIdle
    /\ WebIdle

Next ==
    \/ \E key \in GrantKeys, p \in PermissionLists : RedisSetGrant(key[1], key[2], p) /\ UNCHANGED <<mw_vars, web_vars>>
    \/ \E key \in GrantKeys : RedisDelGrant(key) /\ UNCHANGED <<mw_vars, web_vars>>
    \/ \E u \in UserIds : \E raw \in MapValues(u) : RedisSetMayanUser(u, raw) /\ UNCHANGED <<mw_vars, web_vars>>
    \/ SyncTaskStart /\ UNCHANGED <<mw_vars, web_vars>>
    \/ SyncTaskEnd /\ UNCHANGED <<mw_vars, web_vars>>
    \/ \E h \in {StaffHeader} : ACLSyncNowPost(h) /\ UNCHANGED <<mw_vars, web_vars>>
    \/ ACLSyncNowRespond /\ UNCHANGED <<mw_vars, web_vars>>
    \/ \E r \in Runs : QueryManagedRoles(r) /\ UNCHANGED <<mw_vars, web_vars>>
    \/ \E r \in Runs : RemoveStale(r) /\ UNCHANGED <<mw_vars, web_vars>>
    \/ \E r \in Runs : UpsertUser(r) /\ UNCHANGED <<mw_vars, web_vars>>
    \/ \E r \in Runs : UpsertGrant(r) /\ UNCHANGED <<mw_vars, web_vars>>

Spec == Init /\ [][Next]_vars


\* The endpoint under every kind of Authorization header, over a Redis where
\* every grant is given and every user mapped.
ApiInit ==
    /\ Init
    /\ DOMAIN redis_grants = GrantKeys
    /\ \A u \in UserIds : redis_mayan_user[u] = BackendMapOf(u)

ApiNext ==
    \/ \E key \in GrantKeys, p \in PermissionLists : RedisSetGrant(key[1], key[2], p) /\ UNCHANGED <<mw_vars, web_vars>>
    \/ \E key \in GrantKeys : RedisDelGrant(key) /\ UNCHANGED <<mw_vars, web_vars>>
    \/ \E u \in UserIds : \E raw \in MapValues(u) : RedisSetMayanUser(u, raw) /\ UNCHANGED <<mw_vars, web_vars>>
    \/ SyncTaskStart /\ UNCHANGED <<mw_vars, web_vars>>
    \/ SyncTaskEnd /\ UNCHANGED <<mw_vars, web_vars>>
    \/ \E h \in Headers : ACLSyncNowPost(h) /\ UNCHANGED <<mw_vars, web_vars>>
    \/ ACLSyncNowRespond /\ UNCHANGED <<mw_vars, web_vars>>
    \/ \E r \in Runs : QueryManagedRoles(r) /\ UNCHANGED <<mw_vars, web_vars>>
    \/ \E r \in Runs : RemoveStale(r) /\ UNCHANGED <<mw_vars, web_vars>>
    \/ \E r \in Runs : UpsertUser(r) /\ UNCHANGED <<mw_vars, web_vars>>
    \/ \E r \in Runs : UpsertGrant(r) /\ UNCHANGED <<mw_vars, web_vars>>

ApiSpec == ApiInit /\ [][ApiNext]_vars

\* The ACL mirror at rest.
SyncIdle ==
    /\ redis_grants = <<>>
    /\ redis_mayan_user = [u \in UserIds |-> ""]
    /\ redis_changes = 0
    /\ stored_permissions = PermissionKeys
    /\ roles = InitTables.roles
    /\ groups = InitTables.groups
    /\ role_groups = InitTables.role_groups
    /\ user_groups = InitTables.user_groups
    /\ acls = InitTables.acls
    /\ pc = [r \in Runs |-> "idle"]
    /\ grants_by_user = [r \in Runs |-> <<>>]
    /\ managed_roles = [r \in Runs |-> {}]
    /\ todo_users = [r \in Runs |-> {}]
    /\ cur_role = [r \in Runs |-> <<>>]
    /\ todo_grants = [r \in Runs |-> {}]
    /\ stats = [r \in Runs |-> ZeroStats]
    /\ api_request = NoHeader
    /\ api_status = 0
    /\ disturbed = [r \in Runs |-> FALSE]

\* The periodic task under its schedule: the mirror starts with every grant
\* written, celery beat keeps queueing the task and the workers keep taking
\* steps.  The backend's writes to Redis end by themselves (MaxRedisChanges).
LiveInit ==
    /\ Init
    /\ DOMAIN redis_grants = GrantKeys

Others == UNCHANGED <<mw_vars, web_vars>>

Fairness ==
    /\ WF_vars(SyncTaskStart /\ Others)
    /\ WF_vars(SyncTaskEnd /\ Others)
    /\ WF_vars(ACLSyncNowRespond /\ Others)
    /\ \A r \in Runs :
          /\ WF_vars(QueryManagedRoles(r) /\ Others)
          /\ WF_vars(RemoveStale(r) /\ Others)
          /\ WF_vars(UpsertUser(r) /\ Others)
          /\ WF_vars(UpsertGrant(r) /\ Others)

FairSpec == LiveInit /\ [][Next]_vars /\ Fairness

\* The middleware alone, called once with any request.
MwInit ==
    /\ mw_request \in Requests
    /\ mw_response = NoResponse
    /\ SyncIdle
    /\ WebIdle

MwNext == MiddlewareCall

MwSpec == MwInit /\ [][MwNext]_vars

\* One browser and the provider.
WebInit ==
    /\ WebIdle
    /\ MwIdle
    /\ SyncIdle

WebNext ==
    \/ \E url \in Targets \cup {P_OIDC_AUTHENTICATE} : BrowserGet(url)
    \/ FollowRedirect
    \/ FollowToProvider
    \/ \E url_state \in 0..MaxLogins, code \in Codes \cup {NoCode} :
            OIDCAuthenticationCallbackGet(url_state, code, FALSE)
    \/ OIDCAuthenticationCallbackGet(0, NoCode, TRUE)
    \/ LoseSessionCookie
    \/ LoseStateCookie
    \/ TamperStateCookie
    \/ Tick

WebSpec == WebInit /\ [][WebNext]_vars

\* The values the backend or a hand-written key can hold as the permissions
\* of a grant: missing, a bare string, a list.
PermissionValues ==
    { [kind |-> "none"],
      [kind |-> "str", value |-> ""],
      [kind |-> "str", value |-> "download"],
      ListOf(<<>>),
      ListOf(<<"">>),
      ListOf(<<"view">>),
      ListOf(<<"download">>),
      ListOf(<<"Download">>),
      ListOf(<<"view", "ocr">>),
      ListOf(<<"ai_summary", "upload">>),
      ListOf(<<"view", "download", "ocr", "upload">>) }

\* The user and document of the grant whose permissions vary.
PermUser == <<"a">>
PermDoc == NumDocs

\* The sync runs over one grant with any permissions value: the user is
\* mapped, the ACL of the grant exists from an earlier run with every
\* permission the host knows, and the host knows every permission or lacks
\* document_parsing.content_view (another Mayan version).
PermInit ==
    /\ redis_grants \in { (<<PermUser, PermDoc>> :> Payload(PermUser, PermDoc, p)) : p \in PermissionValues }
    /\ redis_mayan_user = [u \in UserIds |-> IF u = PermUser THEN BackendMapOf(u) ELSE ""]
    /\ redis_changes = 0
    /\ stored_permissions \in {PermissionKeys, PermissionKeys \ {ContentView}}
    /\ roles = InitTables.roles
    /\ groups = InitTables.groups
    /\ role_groups = InitTables.role_groups
    /\ user_groups = InitTables.user_groups
    /\ acls = Put(InitTables.acls, AclKey(DocumentCT, PermDoc, RoleLabel(PermUser)), stored_permissions)
    /\ pc = [r \in Runs |-> "idle"]
    /\ grants_by_user = [r \in Runs |-> <<>>]
    /\ managed_roles = [r \in Runs |-> {}]
    /\ todo_users = [r \in Runs |-> {}]
    /\ cur_role = [r \in Runs |-> <<>>]
    /\ todo_grants = [r \in Runs |-> {}]
    /\ stats = [r \in Runs |-> ZeroStats]
    /\ api_request = NoHeader
    /\ api_status = 0
    /\ disturbed = [r \in Runs |-> FALSE]
    /\ MwIdle
    /\ WebIdle

PermNext ==
    \/ SyncTaskStart /\ Others
    \/ SyncTaskEnd /\ Others
    \/ ACLSyncNowPost(StaffHeader) /\ Others
    \/ ACLSyncNowRespond /\ Others
    \/ \E r \in Runs : QueryManagedRoles(r) /\ Others
    \/ \E r \in Runs : RemoveStale(r) /\ Others
    \/ \E r \in Runs : UpsertUser(r) /\ Others
    \/ \E r \in Runs : UpsertGrant(r) /\ Others

PermSpec == PermInit /\ [][PermNext]_vars

-----------------------------------------------------------------------------
(* What the claims speak of.                                               *)

\* The Document ACL rows of the kc: roles, as (userId, documentId).
KcDocAcls ==
    { k \in DOMAIN acls : k.content_type = DocumentCT /\ StartsWith(k.role, KcPrefix) }

KcDocAclPairs == { <<Drop(k.role, 3), k.object_id>> : k \in KcDocAcls }

\* The (userId, documentId) pairs of the grant records in Redis.
RedisGrantPairs ==
    { <<redis_grants[k].userId, redis_grants[k].documentId>> : k \in DOMAIN redis_grants }

\* mayan:user:<u> holds an integer.
Mapped(u) == redis_mayan_user[u] \in DOMAIN IntOf

\* Run r has returned, and since it began nothing else wrote to Redis or to
\* the tables.
ReturnedAlone(r) == pc[r] = "done" /\ ~disturbed[r]

-----------------------------------------------------------------------------
-----------------------------------------------------------------------------
\* The users that have a grant in Redis.
GrantedUsers == { g[1] : g \in RedisGrantPairs }

\* C3: after a sync run (returned alone), a kc: role whose user has no grant
\* left in Redis holds no Document ACL at all, and a role whose user still has
\* grants holds no Document ACL for a document outside those grants.
C3_StaleAclsRemoved ==
    \A r \in Runs : ReturnedAlone(r) =>
        \A role \in { l \in DOMAIN roles : StartsWith(l, KcPrefix) } :
            LET user_id == Drop(role, 3)
                held == { k.object_id : k \in { x \in KcDocAcls : x.role = role } }
            IN  IF user_id \notin GrantedUsers
                THEN held = {}
                ELSE \A d \in held : <<user_id, d>> \in RedisGrantPairs

\* A run returned alone after deleting rows, with a kc: role whose user has
\* no grant and another whose user has one.
C3_Witness ==
    \E r \in Runs :
        /\ ReturnedAlone(r)
        /\ stats[r].deleted > 0
        /\ \E l \in DOMAIN roles : StartsWith(l, KcPrefix) /\ Drop(l, 3) \notin GrantedUsers
        /\ \E l \in DOMAIN roles : StartsWith(l, KcPrefix) /\ Drop(l, 3) \in GrantedUsers

-----------------------------------------------------------------------------
\* User u holds permission p on document d through the role kc:<u>: a Mayan
\* user is in the role's group, and the role holds p globally or through its
\* ACL for the document.
HoldsThroughRole(u, d, p) ==
    LET label == RoleLabel(u)
        key == AclKey(DocumentCT, d, label)
    IN  /\ label \in DOMAIN roles
        /\ <<label, label>> \in role_groups
        /\ \E pk \in MayanUsers : <<pk, label>> \in user_groups
        /\ \/ p \in roles[label]
           \/ key \in DOMAIN acls /\ p \in acls[key]

\* The (userId, documentId) pairs of the grants the active runs have read.
SnapshotPairs ==
    UNION { { <<g.user_id, g.document_id>> : g \in grants_by_user[r][u] } :
              <<r, u>> \in { x \in Runs \X UserIds : x[2] \in DOMAIN grants_by_user[x[1]] } }

\* C4: access given by the sync is per document: a step gives a user a
\* document permission on a document through their kc: role only if Redis
\* holds (or held, when the run read it) a grant for that user and that
\* document; a permission the role holds globally counts for every document.
C4_AccessOnlyByGrant ==
    [][ \A u \in UserIds, d \in Docs, p \in PermissionKeys :
            (~HoldsThroughRole(u, d, p) /\ HoldsThroughRole(u, d, p)')
                => <<u, d>> \in RedisGrantPairs \cup SnapshotPairs ]_vars

-----------------------------------------------------------------------------
\* The ACL rows the sync does not manage: those of a role whose label does
\* not start with kc:, and those on an object that is not a Document.
Unmanaged(k) == ~StartsWith(k.role, KcPrefix) \/ k.content_type # DocumentCT

\* C5: no step creates, changes or deletes an ACL whose role label does not
\* start with kc:, nor an ACL on an object whose content type is not Document.
C5_UnmanagedAclsUntouched ==
    [][ \A k \in DOMAIN acls \cup DOMAIN acls' :
            Unmanaged(k) => /\ k \in DOMAIN acls
                            /\ k \in DOMAIN acls'
                            /\ acls'[k] = acls[k] ]_vars

\* A run has deleted and created rows of kc: roles, and the administrator's
\* ACL and the cabinet ACL of kc:a are in the table.
C5_Witness ==
    \E r \in Runs :
        /\ pc[r] = "done"
        /\ stats[r].deleted > 0 /\ stats[r].created > 0
        /\ AclKey(DocumentCT, 1, AdminRole) \in DOMAIN acls
        /\ AclKey(CabinetCT, 1, RoleLabel(<<"a">>)) \in DOMAIN acls

-----------------------------------------------------------------------------
\* The headers whose Basic credentials are those of an active account, and
\* among them those of a staff or superuser account.
AuthenticHeaders ==
    { Header(BasicScheme, "tokStaff"), Header(BasicScheme, "tokRoot"),
      Header(BasicScheme, "tokUser") }
PrivilegedHeaders == { Header(BasicScheme, "tokStaff"), Header(BasicScheme, "tokRoot") }

\* A POST is being answered in this step.
PostStep ==
    /\ api_status = 0 /\ pc["ondemand"] = "idle"
    /\ api_status' # 0 \/ pc'["ondemand"] # "idle"

\* C6: POST /api/custom/acl-sync/ runs the sync only for Basic credentials of
\* a staff or superuser account; missing, malformed or wrong credentials give
\* 401, an account that is neither staff nor superuser gives 403, and in both
\* cases the sync is not run and no ACL, role or group changes.
C6_EndpointGuard ==
    [][ PostStep =>
          /\ api_request' \notin AuthenticHeaders => api_status' = 401
          /\ api_request' \in AuthenticHeaders \ PrivilegedHeaders => api_status' = 403
          /\ api_request' \notin PrivilegedHeaders =>
                /\ pc'["ondemand"] = "idle"
                /\ db_vars' = db_vars
          /\ pc'["ondemand"] # "idle" => api_request' \in PrivilegedHeaders ]_vars

\* Both refusals: a 403 is pending for an account that is neither staff nor
\* superuser, no run of the endpoint was started.
C6_Witness ==
    /\ api_status = 403
    /\ api_request = Header(BasicScheme, "tokUser")
    /\ pc["ondemand"] = "idle"


-----------------------------------------------------------------------------
\* The middleware has answered the request.
Answered == mw_response # NoResponse

\* The request is anonymous: no _auth_user_id in the session and no
\* authenticated request.user.
Anonymous(request) == request.session # "auth" /\ request.user # "authenticated"

\* C7: a request whose path starts with /api/ is never answered with a
\* redirect, whatever its method and whether or not it is authenticated; it
\* is handed to the next handler.
C7_ApiNeverRedirected ==
    (Answered /\ StartsWith(mw_request.path, P_API)) => mw_response = PassOn

\* The middleware has passed on an anonymous GET of the ACL sync endpoint.
C7_Witness ==
    /\ Answered
    /\ mw_request.path = P_ACL_SYNC
    /\ mw_request.method = "GET"
    /\ Anonymous(mw_request)

\* The paths the middleware's comment names as reachable without an OIDC
\* redirect.
NamedReachable(path) ==
    \/ StartsWith(path, P_API)
    \/ StartsWith(path, P_OIDC)
    \/ StartsWith(path, P_STATIC)
    \/ StartsWith(path, P_MEDIA)
    \/ StartsWith(path, P_HEALTH)
    \/ path = P_ROBOTS
    \/ path = P_FAVICON

\* C8: every path the middleware names as one that must remain reachable
\* without an OIDC redirect is passed through for an anonymous GET.
C8_NamedPathsPassed ==
    (/\ Answered
     /\ mw_request.method = "GET"
     /\ Anonymous(mw_request)
     /\ NamedReachable(mw_request.path)) => mw_response = PassOn

\* C9: the middleware answers with a redirect only for a GET request that is
\* anonymous; every authenticated request, on any path, and every request
\* with another method reaches the next handler.
C9_RedirectOnlyAnonymousGet ==
    Answered =>
        /\ mw_response.kind = "redirect" =>
              mw_request.method = "GET" /\ Anonymous(mw_request)
        /\ (~Anonymous(mw_request) \/ mw_request.method # "GET") => mw_response = PassOn

\* An authenticated GET of a protected path was passed on.
C9_Witness ==
    /\ Answered
    /\ mw_request.path = P_DOC
    /\ mw_request.method = "GET"
    /\ mw_request.session = "auth"
    /\ mw_request.user = "none"
    /\ mw_response = PassOn

-----------------------------------------------------------------------------
\* The code the provider hands out for the authorization request that
\* carried state s, accepted for an active user.
AcceptedCode(s) == [nonce |-> NonceOf(s), outcome |-> "active"]

\* The callback for state s comes back in the round trip that issued s: with
\* the state cookie set with s, unaltered and within max_age, or without any
\* state cookie but with the session that holds s, no later login having
\* been started.
ReturnsFrom(s) ==
    \/ state_cookie.state = s /\ SigningLoads(state_cookie, now)
    \/ /\ state_cookie = NoCookie
       /\ s = StateOf(issued)
       /\ \E e \in session.oidc_states : e.state = s

\* An anonymous GET of a protected path is answered with a redirect to
\* /oidc/authenticate/ whose next parameter is that path.
RedirectedToAuthenticate ==
    \A url \in Targets :
        (~session.auth /\ BrowserGet(url)) =>
            /\ browser'.kind = "redirect"
            /\ UrlPath(browser'.url) = P_OIDC_AUTHENTICATE
            /\ get_next_url(UrlQuery(browser'.url)) = url
            /\ browser'.origin = url

\* Following that redirect, the authenticate view redirects to the provider
\* with a state and a nonce not issued before, and sets the state cookie for
\* them and for the path.
RedirectedToProvider ==
    (browser.via = "middleware" /\ FollowRedirect) =>
        /\ browser'.kind = "provider"
        /\ \A k \in 1..issued : browser'.state # StateOf(k) /\ browser'.nonce # NonceOf(k)
        /\ \A e \in session.oidc_states : e.state # browser'.state /\ e.nonce # browser'.nonce
        /\ state_cookie' = [state |-> browser'.state, nonce |-> browser'.nonce,
                            next |-> browser.origin, created |-> now, intact |-> TRUE]
        /\ flows'[browser'.state] = browser.origin

\* The callback of that round trip, with an accepted code, authenticates the
\* session and redirects to the path, which the middleware then passes on.
LoggedInAndSentBack ==
    \A s \in 1..MaxLogins :
        (/\ AcceptedCode(s) \in Codes
         /\ s \in DOMAIN flows
         /\ flows[s] \in Targets
         /\ ReturnsFrom(s)
         /\ OIDCAuthenticationCallbackGet(s, AcceptedCode(s), FALSE)) =>
            /\ session'.auth
            /\ browser'.kind = "redirect"
            /\ browser'.url = flows[s]
            /\ AutoOIDCLoginMiddleware(
                  Request("GET", UrlPath(flows[s]), UrlQuery(flows[s]),
                          IF session'.auth THEN "auth" ELSE "empty", "none")) = PassOn

\* And following the redirect to the path serves it.
ServedAfterLogin ==
    (browser.via = "login_success" /\ session.auth /\ FollowRedirect) =>
        browser'.kind = "page" /\ browser'.url = browser.url

\* C10: the login round trip completes.  An anonymous GET of a protected path
\* P is redirected to /oidc/authenticate/ with next=P; that request is
\* redirected to the provider with a fresh state and nonce and sets the state
\* cookie; when the callback of that round trip arrives with that state and a
\* code the provider accepts for an active user, the session is
\* authenticated and the browser is sent to P; and the following GET of P is
\* served without a redirect.
C10_RoundTripCompletes ==
    [][ /\ RedirectedToAuthenticate
        /\ RedirectedToProvider
        /\ LoggedInAndSentBack
        /\ ServedAfterLogin ]_vars

\* The browser was served a protected page with a query string at the end
\* of a round trip that began with its anonymous GET.
C10_Witness ==
    /\ browser.kind = "page"
    /\ browser.via = "login_success"
    /\ browser.url = P_DOC \o <<"?", "p", "=", "1">>
    /\ browser.origin = browser.url
    /\ session.auth

-----------------------------------------------------------------------------
\* Every user that has a grant in Redis is mapped to a Mayan user that
\* exists.
GrantedUsersMapped ==
    \A u \in GrantedUsers :
        Mapped(u) /\ IntOf[redis_mayan_user[u]] \in MayanUsers

\* The Document ACLs of the kc: roles are the Redis grants.
Mirrored == KcDocAclPairs = RedisGrantPairs

-----------------------------------------------------------------------------
\* The state cookie that came back carries the server's signature and is not
\* older than 600 seconds.
ValidCookie ==
    /\ state_cookie # NoCookie
    /\ state_cookie.intact
    /\ (now - state_cookie.created) * TickSeconds <= OIDC_STATE_MAX_AGE

\* The inputs of a callback: the state and code parameters (0 and NoCode
\* when missing).
CallbackStates == 0..MaxLogins
CallbackCodes == Codes \cup {NoCode}

\* The step logs a user in.
LogsIn == browser'.via = "login_success"

\* The step ends in login failure: the failure redirect, and no session
\* becomes authenticated.
EndsInLoginFailure == browser' = login_failure /\ (session'.auth => session.auth)

\* The callback logs in only for a state issued by the authenticate view and
\* found in a valid cookie or, without a cookie, in the session, and only
\* when the nonce handed to authentication, the one the code's ID token must
\* carry, was issued with that state.
LogsInOnlyForIssuedState ==
    \A s \in CallbackStates, code \in CallbackCodes :
        (LogsIn /\ OIDCAuthenticationCallbackGet(s, code, FALSE)) =>
            /\ s \in 1..issued
            /\ code # NoCode
            /\ code.nonce = NonceOf(s)
            /\ \/ ValidCookie /\ state_cookie.state = s /\ state_cookie.nonce = NonceOf(s)
               \/ /\ state_cookie = NoCookie
                  /\ [state |-> s, nonce |-> NonceOf(s)] \in session.oidc_states
                  /\ \A e \in session.oidc_states : e.state = s => e.nonce = NonceOf(s)

\* A callback with an error parameter never logs in.
ErrorNeverLogsIn ==
    EndsInLoginFailure \/ ~OIDCAuthenticationCallbackGet(0, NoCode, TRUE)

\* A missing state or code, a cookie with a bad or expired signature, or a
\* cookie for another state ends in login failure.
RefusedCallbacksFail ==
    \A s \in CallbackStates, code \in CallbackCodes :
        (\/ s = 0
         \/ code = NoCode
         \/ state_cookie # NoCookie /\ ~ValidCookie
         \/ state_cookie # NoCookie /\ state_cookie.state # s) =>
            (EndsInLoginFailure \/ ~OIDCAuthenticationCallbackGet(s, code, FALSE))

\* C11: the callback logs a user in only if the state parameter equals a
\* state issued by the authenticate view, read from a validly signed state
\* cookie not older than 600 seconds or, when no cookie came back, from the
\* session's oidc_states, and the nonce it hands to authentication is the
\* nonce issued together with that state; a missing state or code, a bad or
\* expired signature, or a state that differs always ends in login failure.
C11_CallbackChecksState ==
    [][ /\ LogsInOnlyForIssuedState
        /\ ErrorNeverLogsIn
        /\ RefusedCallbacksFail ]_vars

\* After two logins were started and at least 600 seconds passed, a callback
\* logged the browser in, the session still holding an issued state.
C11_Witness ==
    /\ browser.via = "login_success"
    /\ session.auth
    /\ issued = MaxLogins
    /\ now >= 2
    /\ session.oidc_states # {}

-----------------------------------------------------------------------------
\* How many redirects the browser still has to follow at most: after the
\* middleware's redirect the authenticate view, the provider, the callback
\* and the page; a page ends the chain.
Hops ==
    CASE browser.kind = "redirect" /\ browser.via = "middleware" -> 4
      [] browser.kind = "provider" -> 3
      [] browser.kind = "form" -> 2
      [] browser.kind = "redirect" /\ browser.via # "middleware" -> 1
      [] OTHER -> 0

\* Every callback is answered with a redirect: to where the login started
\* when it logs in, else to /authentication/login/.
FailedCallbackRedirects ==
    /\ \A s \in CallbackStates, code \in CallbackCodes :
          \/ browser'.kind = "redirect" /\ (LogsIn \/ browser'.url = P_LOGIN_FAILURE)
          \/ ~OIDCAuthenticationCallbackGet(s, code, FALSE)
    /\ \/ browser'.kind = "redirect" /\ browser'.url = P_LOGIN_FAILURE
       \/ ~OIDCAuthenticationCallbackGet(0, NoCode, TRUE)

\* The browser follows what it holds: a redirect on this host, the redirect
\* to the provider, or the provider's redirect to the callback for the login
\* it shows.
Follows ==
    \/ FollowRedirect
    \/ FollowToProvider
    \/ /\ browser.kind = "form"
       /\ \E code \in CallbackCodes : OIDCAuthenticationCallbackGet(browser.state, code, FALSE)

\* The browser still sends the session cookie of the login it was just
\* given.
KeepsSession == browser.via = "login_success" => session.auth

-----------------------------------------------------------------------------
\* The entries of a grant's permission list; a bare string is a list of one.
ListEntries(p) ==
    CASE p.kind = "none" -> {}
      [] p.kind = "str" -> {p.value}
      [] p.kind = "list" -> { p.value[i] : i \in 1..Len(p.value) }

\* The permissions the claim gives a list: the two view permissions always,
\* download and ocr each adding one.
ClaimedPermissions(p) ==
    {DocumentView, DocumentFileView}
        \cup (IF "download" \in ListEntries(p) THEN {FileDownload} ELSE {})
        \cup (IF "ocr" \in ListEntries(p) THEN {ContentView} ELSE {})

\* The ACL row of the grant under key k of Redis.
GrantAcl(k) ==
    AclKey(DocumentCT, redis_grants[k].documentId, RoleLabel(redis_grants[k].userId))

\* C13 (as stated): after a run, the ACL of a grant holds exactly the
\* permissions its list stands for, whatever it held before: the two view
\* permissions, the download permission exactly for download, the content
\* permission exactly for ocr, nothing for any other entry, an empty or
\* missing list counting as view.
C13_AclHoldsClaimedPermissions ==
    \A r \in Runs : ReturnedAlone(r) =>
        \A k \in DOMAIN redis_grants :
            /\ GrantAcl(k) \in DOMAIN acls
            /\ acls[GrantAcl(k)] = ClaimedPermissions(redis_grants[k].permissions)

\* C13 (amended): after a run, the ACL of a grant holds exactly those of the
\* permissions its list stands for that the host's StoredPermission table
\* knows, whatever it held before.
C13_AclHoldsKnownClaimedPermissions ==
    \A r \in Runs : ReturnedAlone(r) =>
        \A k \in DOMAIN redis_grants :
            /\ GrantAcl(k) \in DOMAIN acls
            /\ acls[GrantAcl(k)] =
                  ClaimedPermissions(redis_grants[k].permissions) \cap stored_permissions

\* A run over a list with ocr and upload but no download has returned: the
\* ACL, which held the download permission before, holds the content
\* permission and not the download permission.
C13_Witness ==
    /\ ReturnedAlone("periodic")
    /\ redis_grants[<<PermUser, PermDoc>>].permissions = ListOf(<<"view", "ocr">>)
    /\ stats["periodic"].updated = 1
    /\ acls[AclKey(DocumentCT, PermDoc, RoleLabel(PermUser))] = {DocumentView, DocumentFileView, ContentView}

-----------------------------------------------------------------------------
\* The roles labelled kc:<userId>.
KcRoles == { l \in DOMAIN roles : StartsWith(l, KcPrefix) }

\* The permissions the Document ACLs of a role carry.
AclPermissionsOf(role) == UNION { acls[k] : k \in { x \in KcDocAcls : x.role = role } }

\* C14: after a sync run (returned alone), each kc: role holds globally the
\* same permissions as its Document ACLs carry, no more and no fewer, also
\* after the permissions of a grant were reduced or the grant was removed
\* between two runs.
C14_RoleHoldsAclPermissions ==
    \A r \in Runs : ReturnedAlone(r) =>
        \A role \in KcRoles : roles[role] = AclPermissionsOf(role)

-----------------------------------------------------------------------------
\* The (user, document) pairs in the grant snapshot run r read from Redis.
SnapshotPairsOf(r) ==
    UNION { { <<g.user_id, g.document_id>> : g \in grants_by_user[r][u] } :
              u \in DOMAIN grants_by_user[r] }

\* Every run has finished and still holds what it read and counted.
AllRunsFinished == \A r \in Runs : pc[r] = "done"

\* The Document ACLs of kc: roles that Redis holds no grant for.
UngrantedAcls == KcDocAclPairs \ RedisGrantPairs

\* C15 as stated: once the overlapping runs have finished, no Document ACL
\* exists for a grant that had been removed from Redis before the last-started
\* run began. With one Redis write at most, a pair that one run's snapshot
\* holds, that the other's lacks and that Redis no longer holds was removed
\* after the first run read Redis and before the second, last-started, did.
C15_NoRevokedGrantBroughtBack ==
    (AllRunsFinished /\ redis_changes <= 1) =>
        \A g \in UngrantedAcls :
            ~ \E a \in Runs, b \in Runs :
                g \in SnapshotPairsOf(a) /\ g \notin SnapshotPairsOf(b)

\* C15 amended: a Document ACL of a kc: role is only created by a run whose
\* snapshot holds its grant, and once the overlapping runs have finished no
\* Document ACL exists for a grant that had been removed from Redis before
\* the first-started of them began, that is, one no run's snapshot holds.
C15_NoGrantBroughtBackByLaterRuns ==
    [][ /\ \A g \in KcDocAclPairs' \ KcDocAclPairs :
              \E r \in Runs : g \in SnapshotPairsOf(r)
        /\ AllRunsFinished' =>
              \A g \in UngrantedAcls' : \E r \in Runs : g \in SnapshotPairsOf(r)'
      ]_vars

\* Two runs that were in progress together have both finished, one of them
\* deleted a stale ACL, and the grant of user a on the last document, whose
\* ACL the tables held before, is in neither snapshot, not in Redis and has
\* no ACL.
C15_Witness ==
    /\ AllRunsFinished
    /\ \A r \in Runs : disturbed[r]
    /\ \E r \in Runs : stats[r].deleted >= 1
    /\ \A r \in Runs : <<PermUser, NumDocs>> \notin SnapshotPairsOf(r)
    /\ <<PermUser, NumDocs>> \notin RedisGrantPairs
    /\ <<PermUser, NumDocs>> \notin KcDocAclPairs

====
